---- MODULE Spec2Model ----
(***************************************************************************)
(* Model of znet/web.go: the engine registry (New, Server, SetAddr,         *)
(* AddAddr), the address resolver (getPort) and the listener / shutdown /   *)
(* restart orchestration of Run.                                            *)
(*                                                                          *)
(* Strings the code inspects (addresses) are sequences of one-character     *)
(* strings, so that strings.Contains, the ":" prefix and strconv.Itoa are   *)
(* computed as the code computes them.  Names of engines are never          *)
(* inspected and stay opaque.                                               *)
(***************************************************************************)
EXTENDS Integers, Sequences, FiniteSets, TLC

VARIABLES
    zservers,        \* web.go:120  name -> engine id
    engines,         \* the Engine objects constructed so far (id = index)
    fileMd5,         \* web.go:119
    CloseHotRestart, \* web.go:118
    ShutdownDone,    \* web.go:116  TRUE iff the callback is non-nil
    ret,             \* what the last registry call returned
    newReturned,     \* history: <<name, engine>> of every New that returned
    exited,          \* the process was terminated by a Fatalf
    log,             \* the log lines emitted so far (as a set)
    pc,              \* position of the goroutine that calls Run
    tasks,           \* listener goroutines, by <<engine id, bind index>>
    comps,           \* companion plaintext goroutines, by listener task
    srvMap,          \* web.go:256  address -> serverMap
    m,               \* web.go:257  the WaitGroup counter
    iskill,          \* web.go:326
    ctx,             \* web.go:328  "none", "active" or "expired"
    range,           \* progress of srvMap.Range (web.go:335)
    shut,            \* shutdown goroutines, by the key Range visited
    spawns,          \* results of the zshell.RunNewProcess calls, in order
    callbacks        \* number of ShutdownDone invocations

vars == <<zservers, engines, fileMd5, CloseHotRestart, ShutdownDone, ret,
          newReturned, exited, log, pc, tasks, comps, srvMap, m, iskill, ctx,
          range, shut, spawns, callbacks>>

setupVars == <<zservers, engines, fileMd5, CloseHotRestart, ShutdownDone, ret,
               newReturned>>
runVars == <<tasks, comps, srvMap, m, iskill, ctx, range, shut, spawns,
             callbacks>>

----------------------------------------------------------------------------
(* Bounds of the model *)

\* Engine constructions (calls of New, direct or through Server) explored.
MaxEngines == 3
\* Bind targets one engine may hold.
MaxAddrs == 2
\* Ephemeral ports the operating system has to hand out.
NumPorts == 2

----------------------------------------------------------------------------
(* Strings *)

Colon == ":"
Digits == <<"0", "1", "2", "3", "4", "5", "6", "7", "8", "9">>

EmptyStr == <<>>
\* ":3788"
Str3788 == <<":", "3", "7", "8", "8">>
\* ":0"
StrColon0 == <<":", "0">>
\* "0"
Str0 == <<"0">>
\* "8080"
Str8080 == <<"8", "0", "8", "0">>
\* ":8080"
StrColon8080 == <<":", "8", "0", "8", "0">>
\* "127.0.0.1:9090"
StrLocal9090 == <<"1", "2", "7", ".", "0", ".", "0", ".", "1", ":", "9", "0", "9", "0">>
\* a certificate path, "c"
StrCert == <<"c">>
\* a key path, "k"
StrKey == <<"k">>

\* strings.Contains(s, sub)
Contains(s, sub) ==
    \E i \in 0..(Len(s) - Len(sub)) :
        \A j \in 1..Len(sub) : s[i + j] = sub[j]

\* strconv.Itoa for n >= 0
RECURSIVE Itoa(_)
Itoa(n) ==
    IF n < 10 THEN <<Digits[n + 1]>>
    ELSE Itoa(n \div 10) \o <<Digits[(n % 10) + 1]>>

\* Index of the last ":" of s, 0 when there is none.
LastColon(s) ==
    LET I == {i \in 1..Len(s) : s[i] = Colon}
    IN  IF I = {} THEN 0 ELSE CHOOSE i \in I : \A j \in I : j <= i

\* The host and the port of a "host:port" address, as the operating system
\* splits it when it binds.
HostOf(a) == SubSeq(a, 1, LastColon(a) - 1)
PortOf(a) == SubSeq(a, LastColon(a) + 1, Len(a))

----------------------------------------------------------------------------
(* Address resolver *)

\* web.go:380-382: an address without ":" is a port.
withColon(addr) ==
    IF ~Contains(addr, <<Colon>>) THEN <<Colon>> \o addr ELSE addr

\* web.go:383: the address asks for a random port.
isRandom(addr) == withColon(addr) = StrColon0

\* getPort, given the port the probe listener was bound to by the operating
\* system (read only when the address asks for a random port).
getPort(addr, port) ==
    IF withColon(addr) # StrColon0
    THEN withColon(addr)
    ELSE <<Colon>> \o Itoa(port)

\* The ephemeral ports of the operating system.
FirstPort == 49152
Ports == FirstPort..(FirstPort + NumPorts - 1)

----------------------------------------------------------------------------
(* Engines and bind targets *)

defaultServerName == "Z"
Names == {"Z", "a"}

NoTls == [Cert |-> EmptyStr, Key |-> EmptyStr, HTTPAddr |-> EmptyStr,
          Config |-> "nil"]

\* web.go:121-123
defaultAddr == [addr |-> Str3788, tls |-> NoTls]

\* resolveAddr(addrString, tlsConfig...): the address with the first TLS
\* bundle given, if any.
resolveAddr(addrString, tlsConfig) ==
    [addr |-> addrString,
     tls  |-> IF Len(tlsConfig) > 0 THEN tlsConfig[1] ELSE NoTls]

\* web.go:149-162: the Engine New constructs.
newEngine == [addr |-> <<defaultAddr>>, readTimeout |-> 0, writeTimeout |-> 0]

\* web.go:137-140, 176-179: the optional name argument.
nameOf(serverName) ==
    IF Len(serverName) > 0 THEN serverName[1] ELSE defaultServerName

\* The arguments a caller may pass for the variadic serverName.
NameArgs == {<<>>} \cup {<<n>> : n \in Names}

----------------------------------------------------------------------------
(* Log lines: <<severity, who, event>>.  who is the listener task on whose
   behalf an engine's logger writes, or ZLog for the package logger Log
   (web.go:113). *)

ZLog == <<0, 0>>
Line(sev, who, what) == <<sev, who, what>>

\* The log after the lines a step writes.
Logs(lines) == log' = log \cup lines

\* Log.Fatalf (zlog): after the lines written before it, the fatal line is
\* written and the process exits.
Fatalf(lines, who, what) ==
    /\ Logs(lines \cup {Line("fatal", who, what)})
    /\ exited' = TRUE

\* The empty map.
EmptyMap == [x \in {} |-> 0]

----------------------------------------------------------------------------
(* Engine registry: web.go:136-197 *)

EngineIds == 1..Len(engines)

\* What a registry call returns: the engine and, for Server, ok.
Returned(op, name, engine, ok) ==
    [op |-> op, name |-> name, engine |-> engine, ok |-> ok]
NoReturn == Returned("none", "", 0, FALSE)

\* New without the check of web.go:166-168: the name is registered again.
newBodyReplace(name, op, ok, lines) ==
    LET r == Len(engines) + 1 IN
    /\ engines' = Append(engines, newEngine)
    /\ zservers' = [n \in DOMAIN zservers \cup {name} |->
                       IF n = name THEN r ELSE zservers[n]]
    /\ ret' = Returned(op, name, r, ok)
    /\ newReturned' = newReturned \cup {<<name, r>>}
    /\ Logs(lines)
    /\ UNCHANGED exited

\* web.go:142-171, the body of New for the name chosen.  The engine is
\* constructed first; a name already registered is fatal before line 169.
newBody(name, op, ok, lines) ==
    LET r == Len(engines) + 1 IN
    /\ engines' = Append(engines, newEngine)
    /\ IF name \in DOMAIN zservers
       THEN /\ Fatalf(lines, ZLog, "serverName is has")
            /\ UNCHANGED <<zservers, ret, newReturned>>
       ELSE /\ zservers' = [n \in DOMAIN zservers \cup {name} |->
                               IF n = name THEN r ELSE zservers[n]]
            /\ ret' = Returned(op, name, r, ok)
            /\ newReturned' = newReturned \cup {<<name, r>>}
            /\ Logs(lines)
            /\ UNCHANGED exited

\* func New(serverName ...string) *Engine
New(serverName) ==
    /\ pc = "setup" /\ ~exited
    /\ Len(engines) < MaxEngines
    /\ newBody(nameOf(serverName), "New", FALSE, {})
    /\ UNCHANGED <<fileMd5, CloseHotRestart, ShutdownDone, pc>>
    /\ UNCHANGED runVars

\* Server looking up the default name instead of the name asked for.
ServerDefault(serverName) ==
    LET name == nameOf(serverName) IN
    /\ pc = "setup" /\ ~exited
    /\ IF defaultServerName \in DOMAIN zservers
       THEN /\ ret' = Returned("Server", name, zservers[defaultServerName], TRUE)
            /\ UNCHANGED <<zservers, engines, newReturned, exited, log>>
       ELSE /\ Len(engines) < MaxEngines
            /\ newBody(name, "Server", FALSE,
                       {Line("warn", ZLog, "serverName is not")})
    /\ UNCHANGED <<fileMd5, CloseHotRestart, ShutdownDone, pc>>
    /\ UNCHANGED runVars

\* func Server(serverName ...string) (engine *Engine, ok bool)
Server(serverName) ==
    LET name == nameOf(serverName) IN
    /\ pc = "setup" /\ ~exited
    /\ IF name \in DOMAIN zservers
       THEN /\ ret' = Returned("Server", name, zservers[name], TRUE)
            /\ UNCHANGED <<zservers, engines, newReturned, exited, log>>
       ELSE /\ Len(engines) < MaxEngines
            /\ newBody(name, "Server", FALSE,
                       {Line("warn", ZLog, "serverName is not")})
    /\ UNCHANGED <<fileMd5, CloseHotRestart, ShutdownDone, pc>>
    /\ UNCHANGED runVars

\* func (e *Engine) SetAddr(addrString string, tlsConfig ...TlsCfg)
SetAddr(e, addrString, tlsConfig) ==
    /\ pc = "setup" /\ ~exited
    /\ engines' = [engines EXCEPT
                      ![e].addr = <<resolveAddr(addrString, tlsConfig)>>]
    /\ ret' = NoReturn
    /\ UNCHANGED <<zservers, fileMd5, CloseHotRestart, ShutdownDone,
                   newReturned, exited, log, pc>>
    /\ UNCHANGED runVars

\* func (e *Engine) AddAddr(addrString string, tlsConfig ...TlsCfg)
AddAddr(e, addrString, tlsConfig) ==
    /\ pc = "setup" /\ ~exited
    /\ Len(engines[e].addr) < MaxAddrs
    /\ engines' = [engines EXCEPT
                      ![e].addr = Append(@, resolveAddr(addrString, tlsConfig))]
    /\ ret' = NoReturn
    /\ UNCHANGED <<zservers, fileMd5, CloseHotRestart, ShutdownDone,
                   newReturned, exited, log, pc>>
    /\ UNCHANGED runVars

\* Process-wide settings: web.go:116-119, 209-212

\* func CloseHotRestartFileMd5()
CloseHotRestartFileMd5 ==
    /\ ~exited /\ pc = "setup"
    /\ fileMd5 # ""
    /\ fileMd5' = ""
    /\ UNCHANGED <<zservers, engines, CloseHotRestart, ShutdownDone, ret,
                   newReturned, exited, log, pc>>
    /\ UNCHANGED runVars

\* znet.CloseHotRestart = true
SetCloseHotRestart ==
    /\ ~exited /\ pc = "setup"
    /\ ~CloseHotRestart
    /\ CloseHotRestart' = TRUE
    /\ UNCHANGED <<zservers, engines, fileMd5, ShutdownDone, ret,
                   newReturned, exited, log, pc>>
    /\ UNCHANGED runVars

\* znet.ShutdownDone = func() { ... }
SetShutdownDone ==
    /\ ~exited /\ pc = "setup"
    /\ ~ShutdownDone
    /\ ShutdownDone' = TRUE
    /\ UNCHANGED <<zservers, engines, fileMd5, CloseHotRestart, ret,
                   newReturned, exited, log, pc>>
    /\ UNCHANGED runVars

\* A TLS bundle with a companion plaintext address.
TlsRedirect == [Cert |-> StrCert, Key |-> StrKey, HTTPAddr |-> StrLocal9090,
                Config |-> "nil"]

\* The bind targets the setup calls are explored with.
SetupTargets == {<<Str8080, <<>>>>, <<StrColon0, <<TlsRedirect>>>>}

InitGlobals ==
    /\ zservers = EmptyMap
    /\ engines = <<>>
    /\ fileMd5 \in {"md5", ""}
    /\ CloseHotRestart = FALSE
    /\ ShutdownDone = FALSE
    /\ ret = NoReturn
    /\ newReturned = {}
    /\ exited = FALSE
    /\ log = {}

InitRunVars ==
    /\ tasks = EmptyMap
    /\ comps = EmptyMap
    /\ srvMap = EmptyMap
    /\ m = 0
    /\ iskill = FALSE
    /\ ctx = "none"
    /\ range = [started |-> FALSE, seen |-> {}, visited |-> {}]
    /\ shut = EmptyMap
    /\ spawns = <<>>
    /\ callbacks = 0

SetupInit ==
    /\ InitGlobals
    /\ InitRunVars
    /\ pc = "setup"

SetupNext ==
    \/ \E a \in NameArgs : New(a)
    \/ \E a \in NameArgs : Server(a)
    \/ \E e \in EngineIds, b \in SetupTargets : SetAddr(e, b[1], b[2])
    \/ \E e \in EngineIds, b \in SetupTargets : AddAddr(e, b[1], b[2])
    \/ CloseHotRestartFileMd5
    \/ SetCloseHotRestart
    \/ SetShutdownDone

SetupSpec == SetupInit /\ [][SetupNext]_vars

----------------------------------------------------------------------------
(* Run: the listener goroutines, web.go:260-324 *)

\* The bind target of listener task t = <<engine, index>>.
cfgOf(t) == engines[t[1]].addr[t[2]]

\* web.go:265
isTls(cfg) == cfg.tls.Cert # EmptyStr \/ cfg.tls.Config # "nil"

\* The companion started for every HTTPAddr, TLS or not.
wantsCompanionAnyHttpAddr(cfg) == cfg.tls.HTTPAddr # EmptyStr

\* web.go:292, 296: the task starts a companion plaintext listener.
wantsCompanion(cfg) == isTls(cfg) /\ cfg.tls.HTTPAddr # EmptyStr

\* All (engine, bind target) pairs of the registry: web.go:260-261.
Targets ==
    UNION {{<<zservers[n], i>> : i \in 1..Len(engines[zservers[n]].addr)} :
              n \in DOMAIN zservers}

Launched == DOMAIN tasks

\* The addresses some listener of the process is bound to: serving
\* listeners, serving companions and the probe listeners of getPort.
Bound ==
    {tasks[t].addr : t \in {u \in Launched : tasks[u].bound}}
    \cup {<<Colon>> \o Itoa(tasks[t].port) :
             t \in {u \in Launched : tasks[u].pc \in {"probing", "httpProbing"}}}
    \cup {comps[t].addr : t \in {u \in DOMAIN comps : comps[u].pc = "serving"}}

\* Two addresses the operating system cannot bind at once.
Conflict(a, b) ==
    /\ PortOf(a) = PortOf(b)
    /\ HostOf(a) = HostOf(b) \/ HostOf(a) = EmptyStr \/ HostOf(b) = EmptyStr

CanBind(a) == \A b \in Bound : ~Conflict(a, b)

\* A listener goroutine as the go statement of web.go:263 leaves it.
newTask ==
    [pc |-> "getPort", port |-> 0, addr |-> EmptyStr, srv |-> "none",
     bound |-> FALSE, err |-> "none"]

\* The address getPort is resolving at the task's position: the bind
\* address (web.go:266) or the companion's (web.go:297).
resolving(t) ==
    IF tasks[t].pc \in {"getPort", "probing"}
    THEN cfgOf(t).addr ELSE cfgOf(t).tls.HTTPAddr

\* What the task does with the address getPort returned: keep it as addr
\* (web.go:266), or start the companion goroutine on it (web.go:297-298).
resolved(t, a) ==
    IF tasks[t].pc \in {"getPort", "probing"}
    THEN /\ tasks' = [tasks EXCEPT ![t].addr = a, ![t].pc = "constructing",
                                   ![t].port = 0]
         /\ UNCHANGED comps
    ELSE /\ tasks' = [tasks EXCEPT ![t].pc = "serve", ![t].port = 0]
         /\ comps' = [u \in DOMAIN comps \cup {t} |->
                         IF u = t THEN [pc |-> "launched", addr |-> a]
                         ELSE comps[u]]

\* getPort for an address that names its port: web.go:380-385.
Resolve(t) ==
    /\ ~exited
    /\ t \in Launched /\ tasks[t].pc \in {"getPort", "httpPort"}
    /\ ~isRandom(resolving(t))
    /\ resolved(t, getPort(resolving(t), 0))
    /\ UNCHANGED <<srvMap, m, iskill, ctx, range, shut, spawns, callbacks>>
    /\ UNCHANGED <<setupVars, exited, log, pc>>

\* getPort for ":0", web.go:387-390: the probe listener is bound to a port
\* that is free, or net.Listen fails and the process exits.
ProbeListen(t) ==
    /\ ~exited
    /\ t \in Launched /\ tasks[t].pc \in {"getPort", "httpPort"}
    /\ isRandom(resolving(t))
    /\ \/ \E p \in Ports :
            /\ CanBind(<<Colon>> \o Itoa(p))
            /\ tasks' = [tasks EXCEPT
                   ![t].port = p,
                   ![t].pc = IF @ = "getPort" THEN "probing" ELSE "httpProbing"]
            /\ UNCHANGED <<exited, log>>
       \/ /\ Fatalf({}, ZLog, "Listen")
          /\ UNCHANGED tasks
    /\ UNCHANGED <<comps, srvMap, m, iskill, ctx, range, shut, spawns, callbacks>>
    /\ UNCHANGED <<setupVars, pc>>

\* web.go:391-393: the probe listener is closed and its port returned.
ProbeClose(t) ==
    /\ ~exited
    /\ t \in Launched /\ tasks[t].pc \in {"probing", "httpProbing"}
    /\ resolved(t, getPort(resolving(t), tasks[t].port))
    /\ UNCHANGED <<srvMap, m, iskill, ctx, range, shut, spawns, callbacks>>
    /\ UNCHANGED <<setupVars, exited, log, pc>>

\* web.go:273-283: the server instance is constructed and stored under its
\* address.  (The readiness line the timer of web.go:283 writes 100 ms
\* later touches nothing but the log and is left out of the state.)
Register(t) ==
    /\ ~exited
    /\ t \in Launched /\ tasks[t].pc = "constructing"
    /\ srvMap' = [k \in DOMAIN srvMap \cup {tasks[t].addr} |->
                     IF k = tasks[t].addr
                     THEN [engine |-> t[1], srv |-> t]
                     ELSE srvMap[k]]
    /\ tasks' = [tasks EXCEPT
           ![t].srv = "new",
           ![t].pc = IF wantsCompanion(cfgOf(t)) THEN "httpPort" ELSE "serve"]
    /\ UNCHANGED <<comps, m, iskill, ctx, range, shut, spawns, callbacks>>
    /\ UNCHANGED <<setupVars, exited, log, pc>>

\* Every error fatal, the sentinel included.
onServeReturnAnyError(err) ==
    IF err # "nil" THEN "fatal" ELSE "info"

\* web.go:317-321: what the task does with the error serve returned:
\* "fatal", "info" or "nothing".
onServeReturn(err) ==
    IF err # "nil" /\ err # "ErrServerClosed" THEN "fatal"
    ELSE IF err # "ErrServerClosed" THEN "info"
    ELSE "nothing"

\* web.go:317-322: the serve call of task t has returned err; the task
\* ends the process or runs to its end.
served(t, err) ==
    /\ tasks' = [tasks EXCEPT
           ![t].err = err,
           ![t].bound = FALSE,
           ![t].pc = IF onServeReturn(err) = "fatal" THEN "fatal" ELSE "done"]
    /\ IF onServeReturn(err) = "fatal"
       THEN Fatalf({}, t, "Listen")
       ELSE /\ Logs(IF onServeReturn(err) = "info"
                    THEN {Line("info", t, "serve returned")} ELSE {})
            /\ UNCHANGED exited

\* web.go:313, 315: ListenAndServe(TLS) is called.  A server that was shut
\* down returns the sentinel at once; a failed bind (or certificate load)
\* returns its error; otherwise the listener is bound and the call blocks.
ServeCall(t) ==
    /\ ~exited
    /\ t \in Launched /\ tasks[t].pc = "serve"
    /\ IF tasks[t].srv # "new"
       THEN served(t, "ErrServerClosed")
       ELSE \/ /\ CanBind(tasks[t].addr)
               /\ tasks' = [tasks EXCEPT ![t].pc = "listening", ![t].bound = TRUE]
               /\ UNCHANGED <<exited, log>>
            \/ served(t, "listen")
    /\ UNCHANGED <<comps, srvMap, m, iskill, ctx, range, shut, spawns, callbacks>>
    /\ UNCHANGED <<setupVars, pc>>

\* The blocking serve call returns: the sentinel once the server was shut
\* down or closed, the error of a failed accept otherwise.
ServeReturn(t) ==
    /\ ~exited
    /\ t \in Launched /\ tasks[t].pc = "listening"
    /\ served(t, IF tasks[t].srv # "new" THEN "ErrServerClosed" ELSE "accept")
    /\ UNCHANGED <<comps, srvMap, m, iskill, ctx, range, shut, spawns, callbacks>>
    /\ UNCHANGED <<setupVars, pc>>

\* web.go:298-311: the companion goroutine logs, serves on the plaintext
\* address and, when http.ListenAndServe returns, logs its error.
CompanionServe(t) ==
    /\ ~exited
    /\ t \in DOMAIN comps /\ comps[t].pc = "launched"
    /\ \/ /\ CanBind(comps[t].addr)
          /\ comps' = [comps EXCEPT ![t].pc = "serving"]
          /\ Logs({Line("success", t, "Listen companion")})
       \/ /\ comps' = [comps EXCEPT ![t].pc = "failed"]
          /\ Logs({Line("success", t, "Listen companion"),
                   Line("error", t, "HTTP Listen")})
    /\ UNCHANGED <<tasks, srvMap, m, iskill, ctx, range, shut, spawns, callbacks>>
    /\ UNCHANGED <<setupVars, exited, pc>>

\* web.go:304-310: the companion's serve call returns an error, which is
\* logged; the primary listener is not affected.
CompanionReturn(t) ==
    /\ ~exited
    /\ t \in DOMAIN comps /\ comps[t].pc = "serving"
    /\ comps' = [comps EXCEPT ![t].pc = "failed"]
    /\ Logs({Line("error", t, "HTTP Listen")})
    /\ UNCHANGED <<tasks, srvMap, m, iskill, ctx, range, shut, spawns, callbacks>>
    /\ UNCHANGED <<setupVars, exited, pc>>

----------------------------------------------------------------------------
(* Run: the calling goroutine, web.go:254-364 *)

\* The position after the launch loop when `done` tasks are launched.
afterLaunch(done) == IF done = Targets THEN "isKill" ELSE "launch"

\* The engine whose bind targets the inner loop (web.go:261) is in the
\* middle of, if any.
inProgress(e) ==
    /\ \E t \in Launched : t[1] = e
    /\ \E t \in Targets \ Launched : t[1] = e

\* Run is called.
RunStart ==
    /\ ~exited /\ pc = "setup"
    /\ pc' = afterLaunch({})
    /\ UNCHANGED <<setupVars, exited, log>>
    /\ UNCHANGED runVars

\* web.go:260-263: one iteration of the loops: m.Add(1) and the go
\* statement.  The map is ranged over in any order, each engine's bind
\* targets in their order.
Launch(t) ==
    /\ ~exited /\ pc = "launch"
    /\ t \in Targets \ Launched
    /\ \A u \in Targets \ Launched : u[1] = t[1] => t[2] <= u[2]
    /\ \A e \in EngineIds : inProgress(e) => e = t[1]
    /\ m' = m + 1
    /\ tasks' = [u \in Launched \cup {t} |-> IF u = t THEN newTask ELSE tasks[u]]
    /\ pc' = afterLaunch(Launched \cup {t})
    /\ UNCHANGED <<comps, srvMap, iskill, ctx, range, shut, spawns, callbacks>>
    /\ UNCHANGED <<setupVars, exited, log>>

\* web.go:326: isKill() blocks until the process is told to stop and tells
\* whether that was an external kill.
isKill(b) ==
    /\ ~exited /\ pc = "isKill"
    /\ iskill' = b
    /\ pc' = "ctx"
    /\ UNCHANGED <<tasks, comps, srvMap, m, ctx, range, shut, spawns, callbacks>>
    /\ UNCHANGED <<setupVars, exited, log>>

\* web.go:328: the deadline of 20 seconds starts.
WithTimeout ==
    /\ ~exited /\ pc = "ctx"
    /\ ctx' = "active"
    /\ pc' = "spawn"
    /\ UNCHANGED <<tasks, comps, srvMap, m, iskill, range, shut, spawns, callbacks>>
    /\ UNCHANGED <<setupVars, exited, log>>

\* The 20 seconds have passed.  Only a srv.Shutdown call waiting on the
\* context observes it.
DeadlineExceeded ==
    /\ ~exited /\ ctx = "active"
    /\ \E k \in DOMAIN shut : shut[k].pc = "stopping"
    /\ ctx' = "expired"
    /\ UNCHANGED <<tasks, comps, srvMap, m, iskill, range, shut, spawns, callbacks>>
    /\ UNCHANGED <<setupVars, exited, log, pc>>

\* runNewProcess with a failed spawn made fatal.
runNewProcessFatal(ok) ==
    /\ spawns' = Append(spawns, [md5 |-> fileMd5, ok |-> ok])
    /\ IF ok
       THEN /\ Logs(IF fileMd5 = "" THEN {Line("warn", ZLog, "ignore md5 check")}
                    ELSE {})
            /\ UNCHANGED exited
       ELSE Fatalf({}, ZLog, "spawn failed")

\* web.go:396-404: the successor is spawned with the fingerprint; ok tells
\* whether zshell.RunNewProcess succeeded.
runNewProcess(ok) ==
    /\ spawns' = Append(spawns, [md5 |-> fileMd5, ok |-> ok])
    /\ Logs((IF fileMd5 = "" THEN {Line("warn", ZLog, "ignore md5 check")} ELSE {})
            \cup (IF ~ok THEN {Line("error", ZLog, "spawn failed")} ELSE {}))
    /\ UNCHANGED exited

\* The spawn skipped when there is no fingerprint.
shouldSpawnVerified == ~iskill /\ ~CloseHotRestart /\ fileMd5 # ""

\* web.go:331: the condition under which the successor is spawned.
shouldSpawn == ~iskill /\ ~CloseHotRestart

\* The spawn left for after the servers were stopped: Run goes on to
\* Range without having called runNewProcess.
SpawnDeferred ==
    /\ ~exited /\ pc = "spawn"
    /\ pc' = "range"
    /\ UNCHANGED <<spawns, log, exited>>
    /\ UNCHANGED <<tasks, comps, srvMap, m, iskill, ctx, range, shut, callbacks>>
    /\ UNCHANGED setupVars

\* web.go:331-333
Spawn ==
    /\ ~exited /\ pc = "spawn"
    /\ IF shouldSpawn
       THEN \E ok \in BOOLEAN : runNewProcess(ok)
       ELSE UNCHANGED <<spawns, log, exited>>
    /\ pc' = "range"
    /\ UNCHANGED <<tasks, comps, srvMap, m, iskill, ctx, range, shut, callbacks>>
    /\ UNCHANGED setupVars

\* web.go:335: srvMap.Range is called; the keys stored by now will be
\* visited.
RangeStart ==
    /\ ~exited /\ pc = "range"
    /\ range' = [started |-> TRUE, seen |-> DOMAIN srvMap, visited |-> {}]
    /\ pc' = "ranging"
    /\ UNCHANGED <<tasks, comps, srvMap, m, iskill, ctx, shut, spawns, callbacks>>
    /\ UNCHANGED <<setupVars, exited, log>>

\* A shutdown goroutine as the go statement of web.go:336 leaves it.
newShutdown(value) == [value |-> value, pc |-> "start", err |-> "none",
                       hadListener |-> FALSE]

\* web.go:335-357: Range visits a key not visited yet, with the value
\* stored under it, and starts the shutdown goroutine for it.
RangeVisit(k) ==
    /\ ~exited /\ pc = "ranging"
    /\ k \in DOMAIN srvMap \ range.visited
    /\ range' = [range EXCEPT !.visited = @ \cup {k}]
    /\ shut' = [j \in DOMAIN shut \cup {k} |->
                   IF j = k THEN newShutdown(srvMap[k]) ELSE shut[j]]
    /\ UNCHANGED <<tasks, comps, srvMap, m, iskill, ctx, spawns, callbacks>>
    /\ UNCHANGED <<setupVars, exited, log, pc>>

\* Range returns: every key stored before it was called has been visited;
\* a key stored while it ran may have been missed.
RangeEnd ==
    /\ ~exited /\ pc = "ranging"
    /\ range.seen \subseteq range.visited
    /\ pc' = "wait"
    /\ UNCHANGED runVars
    /\ UNCHANGED <<setupVars, exited, log>>

\* web.go:359: m.Wait() returns when the counter is zero.
Wait ==
    /\ ~exited /\ pc = "wait"
    /\ m = 0
    /\ pc' = "callback"
    /\ UNCHANGED runVars
    /\ UNCHANGED <<setupVars, exited, log>>

\* web.go:360-362
Callback ==
    /\ ~exited /\ pc = "callback"
    /\ callbacks' = IF ShutdownDone THEN callbacks + 1 ELSE callbacks
    /\ pc' = "sleep"
    /\ UNCHANGED <<tasks, comps, srvMap, m, iskill, ctx, range, shut, spawns>>
    /\ UNCHANGED <<setupVars, exited, log>>

\* web.go:363-364, 329: the drain pause, the deferred cancel, and Run
\* returns.
Return ==
    /\ ~exited /\ pc = "sleep"
    /\ ctx' = "canceled"
    /\ pc' = "returned"
    /\ UNCHANGED <<tasks, comps, srvMap, m, iskill, range, shut, spawns, callbacks>>
    /\ UNCHANGED <<setupVars, exited, log>>

----------------------------------------------------------------------------
(* Run: the shutdown goroutines, web.go:336-355 *)

\* srv.Shutdown(ctx) that takes the companion plaintext listener of the
\* server down with it.
ShutdownCallCompanion(k) ==
    /\ ~exited
    /\ k \in DOMAIN shut /\ shut[k].pc = "start"
    /\ shut' = [shut EXCEPT ![k].pc = "stopping",
                            ![k].hadListener = tasks[shut[k].value.srv].bound]
    /\ tasks' = [tasks EXCEPT
           ![shut[k].value.srv].srv = IF @ = "new" THEN "shutdown" ELSE @,
           ![shut[k].value.srv].bound = FALSE]
    /\ comps' = [t \in DOMAIN comps |->
                    IF t = shut[k].value.srv
                    THEN [comps[t] EXCEPT !.pc = "failed"] ELSE comps[t]]
    /\ Logs(IF iskill THEN {Line("info", shut[k].value.srv, "Shutdown server ...")} ELSE {})
    /\ UNCHANGED <<srvMap, m, iskill, ctx, range, spawns, callbacks>>
    /\ UNCHANGED <<setupVars, exited, pc>>

\* web.go:339-342: srv.Shutdown(ctx) is called: the server is marked as
\* shutting down and its listener is closed.
ShutdownCall(k) ==
    /\ ~exited
    /\ k \in DOMAIN shut /\ shut[k].pc = "start"
    /\ shut' = [shut EXCEPT ![k].pc = "stopping",
                            ![k].hadListener = tasks[shut[k].value.srv].bound]
    /\ tasks' = [tasks EXCEPT
           ![shut[k].value.srv].srv = IF @ = "new" THEN "shutdown" ELSE @,
           ![shut[k].value.srv].bound = FALSE]
    /\ Logs(IF iskill THEN {Line("info", shut[k].value.srv, "Shutdown server ...")} ELSE {})
    /\ UNCHANGED <<comps, srvMap, m, iskill, ctx, range, spawns, callbacks>>
    /\ UNCHANGED <<setupVars, exited, pc>>

\* What srv.Shutdown(ctx) may return: nil once the connections are idle,
\* the context's error once the deadline has passed, or the error of
\* closing the listener.
shutdownResults(k) ==
    {"nil"}
    \cup (IF ctx = "expired" THEN {"deadline"} ELSE {})
    \cup (IF shut[k].hadListener THEN {"close"} ELSE {})

\* srv.Shutdown returns and a failed stop is only logged, not followed by
\* srv.Close().
ShutdownReturnNoClose(k) ==
    /\ ~exited
    /\ k \in DOMAIN shut /\ shut[k].pc = "stopping"
    /\ \E err \in shutdownResults(k) :
          /\ shut' = [shut EXCEPT ![k].err = err, ![k].pc = "signal"]
          /\ Logs(IF ~iskill THEN {}
                  ELSE IF err # "nil"
                       THEN {Line("error", shut[k].value.srv, "Timeout forced close")}
                       ELSE {Line("success", shut[k].value.srv, "Shutdown server done")})
    /\ UNCHANGED <<tasks, comps, srvMap, m, iskill, ctx, range, spawns, callbacks>>
    /\ UNCHANGED <<setupVars, exited, pc>>

\* web.go:342-352: srv.Shutdown returns.
ShutdownReturn(k) ==
    /\ ~exited
    /\ k \in DOMAIN shut /\ shut[k].pc = "stopping"
    /\ \E err \in shutdownResults(k) :
          /\ shut' = [shut EXCEPT
                 ![k].err = err,
                 ![k].pc = IF err # "nil" THEN "closing" ELSE "signal"]
          /\ Logs(IF ~iskill THEN {}
                  ELSE IF err # "nil"
                       THEN {Line("error", shut[k].value.srv, "Timeout forced close")}
                       ELSE {Line("success", shut[k].value.srv, "Shutdown server done")})
    /\ UNCHANGED <<tasks, comps, srvMap, m, iskill, ctx, range, spawns, callbacks>>
    /\ UNCHANGED <<setupVars, exited, pc>>

\* srv.Close() with a barrier signal of its own in the error branch, before
\* the one at the end of the goroutine.
ForceCloseDone(k) ==
    /\ ~exited
    /\ k \in DOMAIN shut /\ shut[k].pc = "closing"
    /\ shut' = [shut EXCEPT ![k].pc = "signal"]
    /\ tasks' = [tasks EXCEPT ![shut[k].value.srv].srv = "closed",
                              ![shut[k].value.srv].bound = FALSE]
    /\ m' = m - 1
    /\ UNCHANGED <<comps, srvMap, iskill, ctx, range, spawns, callbacks>>
    /\ UNCHANGED <<setupVars, exited, log, pc>>

\* web.go:347: srv.Close()
ForceClose(k) ==
    /\ ~exited
    /\ k \in DOMAIN shut /\ shut[k].pc = "closing"
    /\ shut' = [shut EXCEPT ![k].pc = "signal"]
    /\ tasks' = [tasks EXCEPT ![shut[k].value.srv].srv = "closed",
                              ![shut[k].value.srv].bound = FALSE]
    /\ UNCHANGED <<comps, srvMap, m, iskill, ctx, range, spawns, callbacks>>
    /\ UNCHANGED <<setupVars, exited, log, pc>>

\* web.go:353: m.Done()
Done(k) ==
    /\ ~exited
    /\ k \in DOMAIN shut /\ shut[k].pc = "signal"
    /\ shut' = [shut EXCEPT ![k].pc = "done"]
    /\ m' = m - 1
    /\ UNCHANGED <<tasks, comps, srvMap, iskill, ctx, range, spawns, callbacks>>
    /\ UNCHANGED <<setupVars, exited, log, pc>>

----------------------------------------------------------------------------
(* The registries Run is explored with, each as the setup calls leave it *)

\* A TLS bundle without a companion address.
TlsOnly == [Cert |-> EmptyStr, Key |-> EmptyStr, HTTPAddr |-> EmptyStr,
            Config |-> "cfg"]
\* A companion address without certificate or TLS configuration.
HttpAddrOnly == [Cert |-> EmptyStr, Key |-> EmptyStr, HTTPAddr |-> StrColon8080,
                 Config |-> "nil"]

\* An engine after SetAddr / AddAddr left it with these bind targets.
Engine(targets) == [newEngine EXCEPT !.addr = targets]

\* The settings: every combination for the single default engine, and the
\* defaults (fingerprint present, hot restart on) with and without a
\* ShutdownDone callback for the larger registries.
AllFlags == [md5 : {"md5", ""}, noRestart : BOOLEAN, callback : BOOLEAN]
SomeFlags == [md5 : {"md5"}, noRestart : {FALSE}, callback : BOOLEAN]

\* The registry after New(), and after New() and New("a").
One(e) == [registry |-> [n \in {"Z"} |-> 1], heap |-> <<e>>]
Two(e1, e2) == [registry |-> [n \in {"Z", "a"} |-> IF n = "Z" THEN 1 ELSE 2],
                heap |-> <<e1, e2>>]

\* New()
OneDefault == One(newEngine)
\* New(); New("a"): both keep the default address
TwoDefault == Two(newEngine, newEngine)
\* e := New(); e.SetAddr(":0"); e.AddAddr("0")
TwoRandom ==
    One(Engine(<<resolveAddr(StrColon0, <<>>), resolveAddr(Str0, <<>>)>>))
\* New().SetAddr("8080", TlsCfg{Cert, Key, HTTPAddr})
TlsCompanion == One(Engine(<<resolveAddr(Str8080, <<TlsRedirect>>)>>))
\* New().SetAddr("127.0.0.1:9090", TlsCfg{HTTPAddr});
\* New("a").SetAddr(":0", TlsCfg{Config})
TwoMixed ==
    Two(Engine(<<resolveAddr(StrLocal9090, <<HttpAddrOnly>>)>>),
        Engine(<<resolveAddr(StrColon0, <<TlsOnly>>)>>))

\* The program states Run is called in: a registry with the settings.
Scenarios ==
    ({OneDefault} \X AllFlags)
    \cup ({TwoDefault, TwoRandom, TlsCompanion, TwoMixed} \X SomeFlags)

Init ==
    /\ InitRunVars
    /\ \E sc \in Scenarios :
          /\ zservers = sc[1].registry
          /\ engines = sc[1].heap
          /\ newReturned = {<<n, sc[1].registry[n]>> : n \in DOMAIN sc[1].registry}
          /\ fileMd5 = sc[2].md5
          /\ CloseHotRestart = sc[2].noRestart
          /\ ShutdownDone = sc[2].callback
    /\ ret = NoReturn
    /\ exited = FALSE
    /\ log = {}
    /\ pc = "setup"

Next ==
    \/ RunStart
    \/ \E t \in Targets : Launch(t)
    \/ \E t \in Launched : Resolve(t)
    \/ \E t \in Launched : ProbeListen(t)
    \/ \E t \in Launched : ProbeClose(t)
    \/ \E t \in Launched : Register(t)
    \/ \E t \in Launched : ServeCall(t)
    \/ \E t \in Launched : ServeReturn(t)
    \/ \E t \in DOMAIN comps : CompanionServe(t)
    \/ \E t \in DOMAIN comps : CompanionReturn(t)
    \/ \E b \in BOOLEAN : isKill(b)
    \/ WithTimeout
    \/ DeadlineExceeded
    \/ Spawn
    \/ RangeStart
    \/ \E k \in DOMAIN srvMap : RangeVisit(k)
    \/ RangeEnd
    \/ \E k \in DOMAIN shut : ShutdownCall(k)
    \/ \E k \in DOMAIN shut : ShutdownReturn(k)
    \/ \E k \in DOMAIN shut : ForceClose(k)
    \/ \E k \in DOMAIN shut : Done(k)
    \/ Wait
    \/ Callback
    \/ Return

Spec == Init /\ [][Next]_vars

----------------------------------------------------------------------------
(* Properties *)

AfterKill == {"ctx", "spawn", "range", "ranging", "wait", "callback", "sleep",
              "returned"}
AfterSpawn == {"range", "ranging", "wait", "callback", "sleep", "returned"}
AfterRange == {"wait", "callback", "sleep", "returned"}
AfterWait == {"callback", "sleep", "returned"}

Signalled == {k \in DOMAIN shut : shut[k].pc = "done"}

\* C1: once isKill has returned, Run passes m.Wait and returns.  Stated on
\* the state Run waits in: when Range has returned and every shutdown
\* goroutine it started has signalled the barrier (nothing is left that
\* could signal it), the barrier is released, i.e. the counter is zero.
C1_BarrierReleases ==
    (pc = "wait" /\ ~exited /\ Signalled = DOMAIN shut) => m = 0

\* C2: the ShutdownDone callback is invoked exactly once per Run, and when
\* it is invoked every listener task has returned from serve and ended.
C2_CallbackAfterListeners ==
    /\ callbacks <= 1
    /\ (ShutdownDone /\ pc \in {"sleep", "returned"}) => callbacks = 1
    /\ callbacks >= 1 => \A t \in Launched : tasks[t].pc = "done"

\* C3: runNewProcess is attempted zero times when isKill() returned true
\* or CloseHotRestart is set and exactly once otherwise, whether or not
\* fileMd5 is empty; the attempt passes fileMd5 on.
C3_SpawnCount ==
    /\ pc \notin AfterSpawn => Len(spawns) = 0
    /\ pc \in AfterSpawn =>
          Len(spawns) = IF ~iskill /\ ~CloseHotRestart THEN 1 ELSE 0
    /\ \A i \in 1..Len(spawns) : spawns[i].md5 = fileMd5

C3_Witness ==
    /\ pc = "returned" /\ Len(spawns) = 1 /\ fileMd5 = ""

\* C4: a listener task whose serve call returned ends the process (fatal)
\* for every error other than http.ErrServerClosed, and never for
\* http.ErrServerClosed.
C4_FatalIffNotSentinel ==
    \A t \in Launched :
        tasks[t].err # "none" =>
            /\ tasks[t].err # "ErrServerClosed" =>
                  /\ exited
                  /\ tasks[t].pc = "fatal"
                  /\ Line("fatal", t, "Listen") \in log
            /\ tasks[t].err = "ErrServerClosed" =>
                  /\ tasks[t].pc = "done"
                  /\ Line("fatal", t, "Listen") \notin log

C4_Witness ==
    \E t, u \in Launched :
        /\ tasks[t].err = "ErrServerClosed" /\ tasks[t].pc = "done"
        /\ tasks[u].err = "accept" /\ exited

\* C5: Run launches exactly one primary listener task per (engine, bind
\* target) pair, and a companion task exactly for the bind targets that
\* have TLS active (certificate path or TLS configuration) and a
\* non-empty HTTPAddr.
C5_TaskCount ==
    /\ Launched \subseteq Targets
    /\ m + Cardinality(Signalled) = Cardinality(Launched)
    /\ pc \notin {"setup", "launch"} => Launched = Targets
    /\ DOMAIN comps \subseteq Launched
    /\ \A t \in Launched :
          LET c == engines[t[1]].addr[t[2]]
              active == c.tls.Cert # EmptyStr \/ c.tls.Config # "nil"
          IN  /\ t \in DOMAIN comps => active /\ c.tls.HTTPAddr # EmptyStr
              /\ tasks[t].pc \in {"serve", "listening", "done", "fatal"} =>
                    (t \in DOMAIN comps <=> active /\ c.tls.HTTPAddr # EmptyStr)

C5_Witness ==
    /\ pc = "isKill"
    /\ \E t \in DOMAIN comps :
          /\ comps[t].pc = "serving"
          /\ tasks[t].pc = "listening"
          /\ Cardinality(DOMAIN comps) = 1

\* C6: the registry holds at most one engine per name.  Every New that
\* returned left its name mapped to the engine it returned, for good; a
\* New with a registered name is fatal and replaces nothing; News with
\* distinct names all succeed.
C6_OneEnginePerName ==
    /\ \A p \in newReturned :
          p[1] \in DOMAIN zservers /\ zservers[p[1]] = p[2]
    /\ Cardinality(newReturned) = Cardinality(DOMAIN zservers)
    /\ Len(engines) = Cardinality(newReturned) + (IF exited THEN 1 ELSE 0)
    /\ exited <=> Line("fatal", ZLog, "serverName is has") \in log

C6_Witness ==
    /\ exited
    /\ Cardinality(DOMAIN zservers) = 2
    /\ \A n \in DOMAIN zservers : <<n, zservers[n]>> \in newReturned

\* What the last Server call returned is the engine registered under the
\* name asked for, and under no other name.
C7_Returned ==
    ret.op = "Server" =>
        /\ ret.name \in DOMAIN zservers
        /\ zservers[ret.name] = ret.engine
        /\ \A n \in DOMAIN zservers : n # ret.name => zservers[n] # ret.engine

\* A step overwrites no registration; a Server call that found the name
\* changes nothing, one that did not registers a new default engine.
C7_Step ==
    /\ \A n \in DOMAIN zservers :
          n \in DOMAIN zservers' /\ zservers'[n] = zservers[n]
    /\ (ret'.op = "Server" /\ ret'.ok) => zservers' = zservers
    /\ (ret'.op = "Server" /\ ~ret'.ok /\ ret' # ret) =>
          /\ ret'.name \notin DOMAIN zservers
          /\ DOMAIN zservers' = DOMAIN zservers \cup {ret'.name}
          /\ ret'.engine = Len(engines) + 1
          /\ engines'[ret'.engine] = newEngine

\* C7: Server(name) returns the engine registered under name and leaves
\* the registry alone when there is one; otherwise it constructs a default
\* engine, registers it under name and returns it.  It never returns the
\* engine of another name, and no registration is ever overwritten.
C7_Server == []C7_Returned /\ [][C7_Step]_vars

C7_Witness ==
    /\ ret.op = "Server" /\ ret.ok
    /\ Cardinality(DOMAIN zservers) = 2
    /\ ~exited

\* The step over web.go:331-333 ends nothing and changes nothing but the
\* spawn results and the log, where a failure is written.
C8_Step ==
    (pc = "spawn" /\ pc' # "spawn") =>
        /\ pc' = "range"
        /\ exited' = exited
        /\ UNCHANGED <<tasks, comps, srvMap, m, iskill, ctx, range, shut,
                       callbacks>>
        /\ \A i \in 1..Len(spawns') :
              ~spawns'[i].ok => Line("error", ZLog, "spawn failed") \in log'

\* After a failed spawn every server instance registered when Range was
\* called gets its shutdown goroutine, and Run passes the barrier only
\* with all of them signalled.
C8_Goes ==
    (\E i \in 1..Len(spawns) : ~spawns[i].ok) =>
        /\ pc \in AfterRange => range.seen \subseteq DOMAIN shut
        /\ pc \in AfterWait => (m = 0 /\ Signalled = DOMAIN shut)

\* C8: a failed successor spawn does not end the process: it is logged,
\* and Run goes on exactly as after a successful spawn, to the graceful
\* stop of every registered server instance and to the barrier.
C8_SpawnFailureNotFatal == []C8_Goes /\ [][C8_Step]_vars

C8_Witness ==
    /\ Len(spawns) = 1 /\ ~spawns[1].ok
    /\ pc = "returned" /\ ~exited
    /\ Cardinality(Signalled) = 2

\* C9: getPort(addr) is ":" + addr for an addr without ":", addr itself
\* for an addr with ":" other than ":0", and for ":0" (or "0") a numeric
\* port distinct from the port of every other ":0" bind target of the Run.
C9_GetPort ==
    \A t \in Launched :
        LET a == cfgOf(t).addr
            random == a = StrColon0 \/ a = Str0
        IN  tasks[t].pc \notin {"getPort", "probing"} =>
               /\ (~random /\ ~Contains(a, <<Colon>>)) =>
                     tasks[t].addr = <<Colon>> \o a
               /\ (~random /\ Contains(a, <<Colon>>)) => tasks[t].addr = a
               /\ random =>
                     /\ \E p \in Ports : tasks[t].addr = <<Colon>> \o Itoa(p)
                     /\ \A u \in Launched \ {t} :
                           tasks[u].pc \notin {"getPort", "probing"} =>
                              tasks[u].addr # tasks[t].addr

\* C10: no server instance has started its serve call while its entry
\* (its address mapped to itself) is absent from srvMap.
C10_RegisteredWhileServing ==
    \A t \in Launched :
        tasks[t].pc = "listening" =>
            /\ tasks[t].addr \in DOMAIN srvMap
            /\ srvMap[tasks[t].addr].srv = t

\* The listener tasks whose own server instance a shutdown goroutine was
\* started for.
Matched == {shut[k].value.srv : k \in DOMAIN shut}

\* C11: when Range has returned, every launched listener task is matched
\* by exactly one shutdown goroutine, started for that task's own server
\* instance: there are as many shutdown goroutines as launched tasks and
\* they cover the launched tasks.
C11_OneShutdownPerListener ==
    (pc \in AfterRange /\ ~exited) =>
        /\ Matched = Launched
        /\ Cardinality(DOMAIN shut) = Cardinality(Launched)

\* The listener tasks that have passed srvMap.Store (web.go:281).
Stored == {t \in Launched : tasks[t].pc \notin {"getPort", "probing", "constructing"}}

\* C12: during one Run every srvMap key is written at most once: no two
\* listener tasks have stored under the same key, so every task that has
\* stored still finds its own server instance under its key, and there
\* are as many entries as tasks that have stored.
C12_KeyWrittenOnce ==
    /\ \A t, u \in Stored : t # u => tasks[t].addr # tasks[u].addr
    /\ \A t \in Stored :
          /\ tasks[t].addr \in DOMAIN srvMap
          /\ srvMap[tasks[t].addr].srv = t
    /\ Cardinality(DOMAIN srvMap) = Cardinality(Stored)

\* A step after the registry scan has begun leaves the runtime registry,
\* the engines and the engine registry as they are.
C13_Step ==
    range.started =>
        /\ srvMap' = srvMap
        /\ engines' = engines
        /\ zservers' = zservers

\* C13: once shutdown has started (isKill has returned and srvMap.Range
\* has been called) srvMap is never written again: no entry is added,
\* removed or replaced, and no Engine field and no zservers entry changes.
C13_ReadOnlyDuringShutdown == [][C13_Step]_vars

\* The lifecycle state of a listener task, read from its position and its
\* server instance: "listening" while the serve call blocks on a server
\* no stop was requested for, "shutting-down" once one was.
stateOf(task) ==
    IF task.pc \in {"getPort", "probing", "constructing"} THEN "constructing"
    ELSE IF task.pc \in {"httpPort", "httpProbing", "serve"} THEN "registered"
    ELSE IF task.pc = "listening"
         THEN IF task.srv = "new" THEN "listening" ELSE "shutting-down"
    ELSE IF task.pc = "done" THEN "stopped"
    ELSE "fatal-error"

\* The transitions of the lifecycle other than the one to fatal-error.
Lifecycle ==
    {<<"constructing", "registered">>, <<"registered", "listening">>,
     <<"listening", "shutting-down">>, <<"shutting-down", "stopped">>}

\* A step moves a listener task along the lifecycle only, or to
\* fatal-error, and a task enters its blocking serve call only on a server
\* instance no graceful stop was requested for.
C14_Step ==
    \A t \in Launched :
        /\ \/ stateOf(tasks'[t]) = stateOf(tasks[t])
           \/ <<stateOf(tasks[t]), stateOf(tasks'[t])>> \in Lifecycle
           \/ stateOf(tasks'[t]) = "fatal-error"
        /\ (tasks[t].pc # "listening" /\ tasks'[t].pc = "listening") =>
              tasks[t].srv = "new"

\* C14: each listener task follows only the transitions constructing ->
\* registered -> listening -> shutting-down -> stopped, or ends in
\* fatal-error: it never returns to constructing, never reaches stopped
\* without having passed through listening, and never starts listening
\* after a graceful stop was requested for its server instance.
C14_Lifecycle == [][C14_Step]_vars

\* srv.Close() was called on the server instance of shutdown goroutine k.
forceClosed(k) == tasks[shut[k].value.srv].srv = "closed"

\* The claim as stated: srv.Close() is called exactly when srv.Shutdown
\* failed because the deadline was exceeded.
C15_CloseIffDeadline ==
    \A k \in DOMAIN shut :
        /\ forceClosed(k) => shut[k].err = "deadline"
        /\ shut[k].pc \in {"signal", "done"} =>
              (forceClosed(k) <=> shut[k].err = "deadline")

\* C15: a shutdown goroutine calls srv.Close() if and only if its
\* srv.Shutdown(ctx) returned an error (the deadline of the shared context
\* exceeded, or an error of closing the listener), and then srv.Close()
\* is called before the goroutine signals the barrier; when srv.Shutdown
\* returned nil, srv.Close() is never called.
C15_CloseIffShutdownFailed ==
    \A k \in DOMAIN shut :
        /\ forceClosed(k) => shut[k].err \in {"deadline", "close"}
        /\ shut[k].pc \in {"signal", "done"} =>
              (forceClosed(k) <=> shut[k].err \in {"deadline", "close"})

C15_Witness ==
    \E k, j \in DOMAIN shut :
        /\ shut[k].pc = "done" /\ shut[k].err = "deadline" /\ forceClosed(k)
        /\ shut[j].pc = "done" /\ shut[j].err = "nil" /\ ~forceClosed(j)

\* C16: a primary listener task whose serve call returned
\* http.ErrServerClosed after a graceful stop has written one
\* informational log line for it and has not escalated it: the task ended
\* without a fatal line.
C16_SentinelLogged ==
    \A t \in Launched :
        tasks[t].err = "ErrServerClosed" =>
            /\ Line("info", t, "serve returned") \in log
            /\ Line("fatal", t, "Listen") \notin log
            /\ tasks[t].pc = "done"

\* C17: in a Run where a successor is spawned (no external kill, hot
\* restart not disabled), runNewProcess has been initiated by the time the
\* deadline context exists, so the whole deadline window follows the spawn.
C17_SpawnBeforeDeadline ==
    (ctx # "none" /\ ~iskill /\ ~CloseHotRestart) => Len(spawns) = 1

\* The listener tasks whose server instance has received srv.Shutdown or
\* srv.Close.
Stopped == {t \in Launched : tasks[t].srv \in {"shutdown", "closed"}}

\* C18: no server instance receives srv.Shutdown or srv.Close, and no
\* shutdown goroutine exists, before Run has passed web.go:331-333; in a
\* Run that spawns a successor (no external kill, hot restart not
\* disabled) runNewProcess has then been called once and has returned.
C18_SpawnBeforeStop ==
    (Stopped # {} \/ DOMAIN shut # {}) =>
        /\ pc \in AfterSpawn
        /\ (~iskill /\ ~CloseHotRestart) => Len(spawns) = 1

C18_Witness ==
    /\ Len(spawns) = 1
    /\ \E t, u \in Launched :
          tasks[t].srv = "shutdown" /\ tasks[u].srv = "closed"

C20_NotTracked ==
    /\ m + Cardinality(Signalled) = Cardinality(Launched)
    /\ \A k \in DOMAIN srvMap :
          /\ srvMap[k].srv \in Launched
          /\ tasks[srvMap[k].srv].addr = k
    /\ \A k \in DOMAIN shut : shut[k].value.srv \in Launched

\* A step of Run's goroutine or of a shutdown goroutine leaves the
\* companion tasks as they are; a companion stops serving only by its own
\* serve call returning, which it logs.
C20_Step ==
    /\ (shut' # shut \/ pc' # pc) => comps' = comps
    /\ \A t \in DOMAIN comps :
          (comps[t].pc = "serving" /\ comps'[t].pc # "serving") =>
              /\ tasks' = tasks
              /\ Line("error", t, "HTTP Listen") \in log'

\* C20: a companion plaintext task is neither stored in srvMap nor counted
\* in the barrier; the Shutdown Coordinator never calls srv.Shutdown or
\* srv.Close on it, so Run can pass the barrier, invoke ShutdownDone and
\* return while a companion task is still serving.
C20_CompanionUntracked == []C20_NotTracked /\ [][C20_Step]_vars

C20_Witness ==
    /\ pc = "returned" /\ callbacks = 1 /\ m = 0
    /\ \E t \in DOMAIN comps :
          comps[t].pc = "serving" /\ tasks[t].pc = "done"

====
